---- MODULE Spec2Model ----
(***************************************************************************)
(* Chess analysis backend (backend/): the ChessService facade              *)
(* (app/services/chess_service.py), the ChessAnalyzer it drives            *)
(* (chess_scoring.py), the record parser (app/utils/chess_utils.py and     *)
(* the legacy copy in main.py) and the external engine and rules library   *)
(* seen through the calls the code makes on them.                          *)
(*                                                                         *)
(* Units.  Time limits are held in hundredths of a second, so the          *)
(* configured 1.0 s and 10.0 s are 100 and 1000.  Advantages (floats in    *)
(* pawns) are held as fractions [num, den]: centipawns / 100.0 is          *)
(* [num |-> centipawns, den |-> 100].                                      *)
(***************************************************************************)
EXTENDS Integers, Sequences, FiniteSets, TLC

\* Optional[T]: None is the empty tuple, a value v is <<v>>
None == <<>>
Some(v) == <<v>>
Val(o) == o[1]

(***************************************************************************)
(* Bounds of the model.                                                    *)
(***************************************************************************)
\* legal moves of the positions that have any
MaxMoves == 2
\* plies in the principal variation a successful search reports
MaxPv == 6
\* ChessAnalyzer objects (engine launches) over one run of the service
MaxAnalyzers == 2
\* characters of a record given to parse_state_string in SpecParse
MaxLen == 6

(***************************************************************************)
(* Configuration (app/core/config.py), in hundredths of a second.          *)
(***************************************************************************)
default_analysis_time == 100
max_analysis_time == 1000

(***************************************************************************)
(* The time_limit field of a request body (app/models/chess.py, line 23):  *)
(* Field(1.0, ge=0.1, le=10.0), in hundredths of a second.                 *)
(***************************************************************************)
request_default_time == 100
request_min_time == 10
request_max_time == 1000

(***************************************************************************)
(* Text.  A string is a sequence of symbols: ":" and " " are the colon and *)
(* the blank, "white", "black" and "bogus" are words, and a FEN the rules  *)
(* library accepts is one symbol of FenAtoms.                              *)
(***************************************************************************)
FenAtoms == {"W0", "Wn", "Bn"}

\* str.split("::"): left to right, non-overlapping
RECURSIVE SplitFrom(_, _, _)
SplitFrom(s, i, cur) ==
    IF i > Len(s) THEN <<cur>>
    ELSE IF i < Len(s) /\ s[i] = ":" /\ s[i + 1] = ":"
         THEN <<cur>> \o SplitFrom(s, i + 2, <<>>)
         ELSE SplitFrom(s, i + 1, Append(cur, s[i]))

Split(s) == SplitFrom(s, 1, <<>>)

\* str.strip(): leading and trailing blanks removed
RECURSIVE LStrip(_)
LStrip(s) == IF s # <<>> /\ Head(s) = " " THEN LStrip(Tail(s)) ELSE s

RECURSIVE RStrip(_)
RStrip(s) ==
    IF s # <<>> /\ s[Len(s)] = " " THEN RStrip(SubSeq(s, 1, Len(s) - 1)) ELSE s

Strip(s) == RStrip(LStrip(s))

\* any FEN passes
BoardRejects_never(fen) == FALSE

\* chess.Board(fen) raises ValueError unless the rules library accepts fen
BoardRejects(fen) == ~(Len(fen) = 1 /\ fen[1] \in FenAtoms)

ValueError == [ok |-> FALSE, error |-> "ValueError"]

Parsed(turn, fen, arrows) ==
    [ok |-> TRUE, turn |-> turn, fen |-> fen, arrows |-> arrows]

\* any turn token passes
TurnRejected_never(turn) == FALSE

\* the turn test of both parsers: turn not in ["white", "black"]
TurnRejected(turn) == turn \notin {<<"white">>, <<"black">>}

\* app/utils/chess_utils.py, lines 23-41
parse_state_string_unstripped(state_string) ==
    LET parts  == Split(state_string)
        turn   == parts[1]
        fen    == Strip(parts[2])
        arrows == IF Len(parts) > 2 THEN Strip(parts[3]) ELSE <<>>
    IN  IF Len(parts) < 2 THEN ValueError
        ELSE IF TurnRejected(turn) THEN ValueError
        ELSE IF BoardRejects(fen) THEN ValueError
        ELSE Parsed(turn, fen, arrows)

parse_state_string(state_string) ==
    LET parts  == Split(state_string)
        turn   == Strip(parts[1])
        fen    == Strip(parts[2])
        arrows == IF Len(parts) > 2 THEN Strip(parts[3]) ELSE <<>>
    IN  IF Len(parts) < 2 THEN ValueError
        ELSE IF TurnRejected(turn) THEN ValueError
        ELSE IF BoardRejects(fen) THEN ValueError
        ELSE Parsed(turn, fen, arrows)

\* main.py (legacy application), lines 48-60: the same without the FEN check
legacy_parse_state_string(state_string) ==
    LET parts  == Split(state_string)
        turn   == Strip(parts[1])
        fen    == Strip(parts[2])
        arrows == IF Len(parts) > 2 THEN Strip(parts[3]) ELSE <<>>
    IN  IF Len(parts) < 2 THEN ValueError
        ELSE IF TurnRejected(turn) THEN ValueError
        ELSE Parsed(turn, fen, arrows)

(***************************************************************************)
(* The rules library (chess.Board), as far as the code uses it.  A board   *)
(* is the FEN it was built from and its move stack.  A Move is a number;   *)
(* str(move) is its text.                                                  *)
(***************************************************************************)
WHITE == TRUE
BLACK == FALSE

\* chess.Board(fen)
Board(fen) == [root |-> fen[1], stack |-> <<>>]

\* board.push(move)
push(board, move) == [board EXCEPT !.stack = Append(@, move)]

\* board.pop()
pop_missing(board) == board

pop(board) == [board EXCEPT !.stack = SubSeq(@, 1, Len(@) - 1)]

\* board.turn: the side the FEN names, flipped by every move on the stack
turn_of(board) ==
    LET rootTurn == IF board.root \in {"W0", "Wn"} THEN WHITE ELSE BLACK
    IN  IF Len(board.stack) % 2 = 0 THEN rootTurn ELSE ~rootTurn

\* board.fen(): the text of the current position
fen_of(board) == <<board.root>> \o [i \in 1..Len(board.stack) |-> <<"move", board.stack[i]>>]

\* list(board.legal_moves), in the library's enumeration order
legal_moves_of(board) ==
    IF board.stack = <<>> /\ board.root \in {"Wn", "Bn"}
    THEN [i \in 1..MaxMoves |-> i]
    ELSE <<>>

\* str(move)
MoveStr(move) == <<"move", move>>

(***************************************************************************)
(* The engine's answer (chess.engine): info["score"] is a PovScore, a      *)
(* score relative to the side to move of the analysed board, together with *)
(* that side.  A missing key of the info dict is None; {} is EmptyInfo.    *)
(***************************************************************************)
Cp(v) == [t |-> "cp", v |-> v]
Mate(v) == [t |-> "mate", v |-> v]
PovScore(relative, turn) == [relative |-> relative, turn |-> turn]

EmptyInfo == [score |-> None, pv |-> <<>>, depth |-> None, nodes |-> None]

\* score.is_mate()
is_mate(score) == score.relative.t = "mate"

\* score.mate(), where the score object has the method: the engine's number,
\* relative to the side to move, unconverted
mate(score) == score.relative.v

\* str(score): "PovScore(Cp(+50), WHITE)"
ScoreStr(score) ==
    [head   |-> IF score.relative.t = "cp" THEN "Cp(" ELSE "Mate(",
     sign   |-> IF score.relative.v < 0 THEN "-" ELSE "+",
     digits |-> IF score.relative.v < 0 THEN -score.relative.v ELSE score.relative.v,
     turn   |-> IF score.turn = WHITE THEN "WHITE" ELSE "BLACK"]

\* int(re.search(r'Cp\(([+-]?\d+)\)', score_str).group(1)), None without a match
CpSearch(score_str) ==
    IF score_str.head = "Cp("
    THEN Some(IF score_str.sign = "-" THEN -score_str.digits ELSE score_str.digits)
    ELSE None

\* a float, as a fraction
Frac(num, den) == [num |-> num, den |-> den]
FracLess(a, b) == a.num * b.den < b.num * a.den
FracEq(a, b) == a.num * b.den = b.num * a.den

\* centipawns / 100.0
Pawns(centipawns) == Frac(centipawns, 100)

(***************************************************************************)
(* ChessAnalyzer (chess_scoring.py): the parts without state.              *)
(***************************************************************************)
\* analyze_position, lines 98-103: an exception of engine.analyse becomes {}
info_of(outcome, board) ==
    IF outcome.raised THEN EmptyInfo
    ELSE [score |-> IF outcome.score = None THEN None
                    ELSE Some(PovScore(Val(outcome.score), turn_of(board))),
          pv    |-> outcome.pv,
          depth |-> outcome.depth,
          nodes |-> outcome.nodes]

\* get_board_analysis, lines 394-435: the record of one move
move_data_of_mate_sentinel(move, info) ==
    LET blank == [move            |-> MoveStr(move),
                  white_advantage |-> None,
                  is_mate         |-> FALSE,
                  mate_in         |-> None,
                  best_response   |-> None,
                  depth_reached   |-> None,
                  nodes_searched  |-> None]
        score == Val(info.score)
        cp    == CpSearch(ScoreStr(score))
    IN  IF info # EmptyInfo /\ info.score # None
        THEN [blank EXCEPT
                !.is_mate         = is_mate(score),
                !.mate_in         = IF is_mate(score) THEN Some(mate(score)) ELSE None,
                !.white_advantage = IF is_mate(score) THEN Some(Frac(999, 1))
                                    ELSE IF cp = None THEN None
                                    ELSE Some(Pawns(Val(cp))),
                !.best_response   = IF info.pv # <<>> THEN Some(MoveStr(info.pv[1]))
                                    ELSE None,
                !.depth_reached   = info.depth,
                !.nodes_searched  = info.nodes]
        ELSE blank

\* the best response is read outside the test for a score
move_data_of_pv_unguarded(move, info) ==
    LET blank == [move            |-> MoveStr(move),
                  white_advantage |-> None,
                  is_mate         |-> FALSE,
                  mate_in         |-> None,
                  best_response   |-> None,
                  depth_reached   |-> None,
                  nodes_searched  |-> None]
        score == Val(info.score)
        cp    == CpSearch(ScoreStr(score))
    IN  IF info # EmptyInfo /\ info.score # None
        THEN [blank EXCEPT
                !.is_mate         = is_mate(score),
                !.mate_in         = IF is_mate(score) THEN Some(mate(score)) ELSE None,
                !.white_advantage = IF is_mate(score) \/ cp = None
                                    THEN None ELSE Some(Pawns(Val(cp))),
                !.best_response   = IF info.pv # <<>> THEN Some(MoveStr(info.pv[1]))
                                    ELSE None,
                !.depth_reached   = info.depth,
                !.nodes_searched  = info.nodes]
        ELSE [blank EXCEPT
                !.best_response   = IF info.pv # <<>> THEN Some(MoveStr(info.pv[1]))
                                    ELSE None]

move_data_of(move, info) ==
    LET blank == [move            |-> MoveStr(move),
                  white_advantage |-> None,
                  is_mate         |-> FALSE,
                  mate_in         |-> None,
                  best_response   |-> None,
                  depth_reached   |-> None,
                  nodes_searched  |-> None]
        score == Val(info.score)
        cp    == CpSearch(ScoreStr(score))
    IN  IF info # EmptyInfo /\ info.score # None
        THEN [blank EXCEPT
                !.is_mate         = is_mate(score),
                !.mate_in         = IF is_mate(score) THEN Some(mate(score)) ELSE None,
                !.white_advantage = IF is_mate(score) \/ cp = None
                                    THEN None ELSE Some(Pawns(Val(cp))),
                !.best_response   = IF info.pv # <<>> THEN Some(MoveStr(info.pv[1]))
                                    ELSE None,
                !.depth_reached   = info.depth,
                !.nodes_searched  = info.nodes]
        ELSE blank

\* the sort key of line 443
sort_key(x) ==
    IF x.white_advantage # None THEN Val(x.white_advantage) ELSE Frac(-999, 1)

\* list.sort(key=..., reverse=True): descending, equal keys keep their order
RECURSIVE insert_desc_unique(_, _)
insert_desc_unique(sorted, x) ==
    IF sorted = <<>> THEN <<x>>
    ELSE IF FracEq(sort_key(Head(sorted)), sort_key(x)) THEN sorted
    ELSE IF FracLess(sort_key(Head(sorted)), sort_key(x))
         THEN <<x>> \o sorted
         ELSE <<Head(sorted)>> \o insert_desc_unique(Tail(sorted), x)

\* an equal key goes in front of the records already placed
RECURSIVE insert_desc_unstable(_, _)
insert_desc_unstable(sorted, x) ==
    IF sorted = <<>> THEN <<x>>
    ELSE IF ~FracLess(sort_key(x), sort_key(Head(sorted)))
         THEN <<x>> \o sorted
         ELSE <<Head(sorted)>> \o insert_desc_unstable(Tail(sorted), x)

RECURSIVE insert_desc(_, _)
insert_desc(sorted, x) ==
    IF sorted = <<>> THEN <<x>>
    ELSE IF FracLess(sort_key(Head(sorted)), sort_key(x))
         THEN <<x>> \o sorted
         ELSE <<Head(sorted)>> \o insert_desc(Tail(sorted), x)

RECURSIVE sort_moves(_)
sort_moves(moves) ==
    IF moves = <<>> THEN <<>>
    ELSE insert_desc(sort_moves(SubSeq(moves, 1, Len(moves) - 1)), moves[Len(moves)])

\* pv without the cut
Take_whole(s, n) == s

\* pv[:5]
Take(s, n) == SubSeq(s, 1, IF Len(s) < n THEN Len(s) ELSE n)

\* get_best_move, lines 464-506: the summary of one direct search
best_move_data_of(info) ==
    LET score == Val(info.score)
        cp    == CpSearch(ScoreStr(score))
        failed == [error               |-> Some("Analysis failed"),
                   best_move           |-> None,
                   advantage           |-> None,
                   is_mate             |-> FALSE,
                   mate_in             |-> None,
                   depth_reached       |-> None,
                   nodes_searched      |-> None,
                   principal_variation |-> <<>>]
    IN  IF info = EmptyInfo THEN failed
        ELSE [error               |-> None,
              best_move           |-> IF info.pv # <<>> THEN Some(MoveStr(info.pv[1]))
                                      ELSE None,
              advantage           |-> IF info.score = None \/ is_mate(score) \/ cp = None
                                      THEN None ELSE Some(Pawns(Val(cp))),
              is_mate             |-> info.score # None /\ is_mate(score),
              mate_in             |-> IF info.score # None /\ is_mate(score)
                                      THEN Some(mate(score)) ELSE None,
              depth_reached       |-> info.depth,
              nodes_searched      |-> info.nodes,
              principal_variation |-> [i \in 1..Len(Take(info.pv, 5)) |->
                                          MoveStr(info.pv[i])]]

\* the time limit an analyzer method works under: its default when None
analyzer_limit(time_limit) ==
    IF time_limit = None THEN default_analysis_time ELSE Val(time_limit)

(***************************************************************************)
(* ChessService (app/services/chess_service.py): the parts without state.  *)
(***************************************************************************)
\* lines 93-97 and 167-171: the default when absent, the ceiling when above it
clamp_time_limit_no_ceiling(time_limit) ==
    IF time_limit = None THEN default_analysis_time ELSE Val(time_limit)

clamp_time_limit(time_limit) ==
    IF time_limit = None THEN default_analysis_time
    ELSE IF Val(time_limit) > max_analysis_time THEN max_analysis_time
    ELSE Val(time_limit)

(***************************************************************************)
(* The environment.                                                        *)
(***************************************************************************)
\* find_stockfish_path (chess_utils.py, lines 54-57) over settings.stockfish_paths:
\* the first listed path that exists, and "stockfish" when none does
find_stockfish_path(exists) == IF exists THEN "./stockfish" ELSE "stockfish"

\* os.path.exists(self.engine_path), chess_scoring.py line 52
path_exists(exists, path) == exists /\ path = "./stockfish"

\* chess.engine.Limit(time=time_limit): default_depth is None in the service
Limit(time_limit) == [time |-> time_limit]

\* the principal variation of a search that found one
PvLine == [i \in 1..MaxPv |-> 100 + i]

Found(score, pv) ==
    [raised |-> FALSE, score |-> Some(score), pv |-> pv,
     depth |-> Some(12), nodes |-> Some(1000)]

\* engine.analyse raised
Raised == [raised |-> TRUE, score |-> None, pv |-> <<>>, depth |-> None, nodes |-> None]

\* engine.analyse returned an info dict without any key
NoInfo == [raised |-> FALSE, score |-> None, pv |-> <<>>, depth |-> None, nodes |-> None]

\* engine.analyse returned an info dict with neither score nor pv
DepthOnly == [NoInfo EXCEPT !.depth = Some(12)]

\* engine.analyse returned an info dict with a principal variation and no score
PvOnly == [NoInfo EXCEPT !.pv = PvLine]

\* what one engine.analyse call can end in
Outcomes ==
    {Raised, DepthOnly, PvOnly, Found(Cp(50), <<>>)}
    \cup {Found(sc, PvLine) : sc \in {Cp(50), Cp(-50), Mate(1)}}

\* the outcomes followed when two callers and the lifecycle interleave
FewOutcomes == {Raised, Found(Cp(50), PvLine)}

\* records given to the service
RecordOf(turn, fen) == <<turn, ":", ":", fen, ":", ":">>

\* positions without and with legal moves, white and black to move, a turn
\* token that disagrees with the FEN, and the records that are refused
Records ==
    {RecordOf("white", "W0"), RecordOf("black", "Bn"),
     <<"black", ":", ":", "Wn">>, <<"bogus", ":", ":", "Wn">>,
     RecordOf("white", "junk"), <<"white">>}

FewRecords ==
    {RecordOf("white", "Wn"), RecordOf("white", "W0"), <<"bogus", ":", ":", "Wn">>}

\* requested time limits: absent, below the floor, the default, above the ceiling
TimeLimits == {None, Some(5), Some(default_analysis_time), Some(max_analysis_time + 1)}

PairRecords == {RecordOf("white", "Wn"), RecordOf("white", "W0")}

FewTimeLimits == {None}

Callers == {"c1", "c2"}
Main == "main"
Procs == Callers \cup {Main}

(***************************************************************************)
(* State.                                                                  *)
(***************************************************************************)
VARIABLES
    svc_analyzer,     \* ChessService._analyzer: 0 is None, else an index of analyzers
    svc_engine_path,  \* ChessService._engine_path
    analyzers,        \* the ChessAnalyzer objects created so far
    stockfish_exists, \* whether a listed engine path exists on this host
    pov_score_mate,   \* whether the installed chess.engine.PovScore has mate()
    session_started,  \* history: an engine was launched and stop_engine not called since
    exited,           \* sys.exit(1) was called
    loc,              \* the local variables of each thread of control
    record,           \* the record under test (SpecParse)
    parsed            \* what the two parsers made of it (SpecParse)

vars == <<svc_analyzer, svc_engine_path, analyzers, stockfish_exists,
          pov_score_mate, session_started, exited, loc, record, parsed>>

svc_vars == <<svc_analyzer, svc_engine_path, analyzers, stockfish_exists,
              pov_score_mate, session_started, exited>>
parse_vars == <<record, parsed>>

NoBoard == [root |-> "-", stack |-> <<>>]
NoAnalysis == [fen |-> <<>>, turn |-> "-", total_moves |-> 0]
NoCall == [analyzer |-> 0, board |-> NoBoard, limit |-> Limit(0)]

Idle ==
    [pc           |-> "idle",
     op           |-> "-",
     state_string |-> <<>>,
     req_limit    |-> None,
     time_limit   |-> 0,
     board        |-> NoBoard,
     analyzer     |-> 0,
     legal_moves  |-> <<>>,
     i            |-> 0,
     analysis     |-> NoAnalysis,
     moves        |-> <<>>,
     resp         |-> None,
     calling      |-> FALSE,
     call         |-> NoCall,
     log          |-> <<>>]

Init ==
    /\ svc_analyzer = 0
    /\ svc_engine_path = None
    /\ analyzers = <<>>
    /\ stockfish_exists \in BOOLEAN
    /\ pov_score_mate \in BOOLEAN
    /\ session_started = FALSE
    /\ exited = FALSE
    /\ loc = [p \in Procs |-> Idle]
    /\ record = <<>>
    /\ parsed = None

(***************************************************************************)
(* Helpers of the actions.                                                 *)
(***************************************************************************)
\* one position object behind the board of every thread
Set_shared_board(p, r) ==
    loc' = [q \in Procs |->
               IF q = p THEN r
               ELSE IF r.board.root # "-" /\ loc[q].board.root # "-"
                    THEN [loc[q] EXCEPT !.board = r.board]
                    ELSE loc[q]]

\* the locals of thread p become r; those of the other threads stay
Set(p, r) == loc' = [loc EXCEPT ![p] = r]

\* the call ends by raising `kind` to the caller of the service
Raise(l, kind) == [l EXCEPT !.pc = "done", !.resp = Some([status |-> kind, body |-> None])]

\* the call ends by returning `body`
Return(l, body) == [l EXCEPT !.pc = "done", !.resp = Some([status |-> "ok", body |-> Some(body)])]

\* the summary fields are read off the top-ranked record
AnalysisResponse_from_top_record(analysis, moves, best) ==
    [fen                 |-> analysis.fen,
     turn                |-> analysis.turn,
     total_moves         |-> analysis.total_moves,
     moves               |-> moves,
     best_move           |-> IF moves # <<>> THEN Some(moves[1].move) ELSE best.best_move,
     advantage           |-> IF moves # <<>> THEN moves[1].white_advantage ELSE best.advantage,
     is_mate             |-> IF moves # <<>> THEN moves[1].is_mate ELSE best.is_mate,
     mate_in             |-> IF moves # <<>> THEN moves[1].mate_in ELSE best.mate_in,
     principal_variation |-> best.principal_variation]

\* AnalysisResponse(...), chess_service.py lines 120-145
AnalysisResponse(analysis, moves, best) ==
    [fen                 |-> analysis.fen,
     turn                |-> analysis.turn,
     total_moves         |-> analysis.total_moves,
     moves               |-> moves,
     best_move           |-> best.best_move,
     advantage           |-> best.advantage,
     is_mate             |-> best.is_mate,
     mate_in             |-> best.mate_in,
     principal_variation |-> best.principal_variation]

\* BestMoveResponse(...), chess_service.py lines 192-200
BestMoveResponse(best) ==
    [best_move           |-> best.best_move,
     advantage           |-> best.advantage,
     is_mate             |-> best.is_mate,
     mate_in             |-> best.mate_in,
     depth_reached       |-> best.depth_reached,
     nodes_searched      |-> best.nodes_searched,
     principal_variation |-> best.principal_variation]

\* get_board_analysis, lines 376-382
analysis_data_of(board) ==
    [fen         |-> fen_of(board),
     turn        |-> IF turn_of(board) = WHITE THEN "white" ELSE "black",
     total_moves |-> Len(legal_moves_of(board))]

\* the engine of analyzer a is set (self.engine is truthy)
EngineSet(a) == analyzers[a].engine # "none"

\* ChessService.is_engine_ready, lines 68-73
is_engine_ready == svc_analyzer # 0 /\ EngineSet(svc_analyzer)

\* ChessService.health_check, lines 211-227
health_check ==
    IF is_engine_ready
    THEN [status |-> "healthy", engine |-> "stockfish", engine_path |-> svc_engine_path]
    ELSE [status |-> "unhealthy", engine |-> "-", engine_path |-> None]

\* ChessService.stop_engine, lines 61-66: an exception of quit_engine is
\* caught and printed (and quit_engine itself catches what engine.quit raises)
quit_propagates_raised(quit_raises) == quit_raises

quit_propagates(quit_raises) == FALSE

(***************************************************************************)
(* ChessService.analyze_position (lines 91-103) and get_best_move (lines   *)
(* 165-177): parse the record, settle the time limit, build the board.     *)
(***************************************************************************)
\* the turn token of the record decides the side to move of the board
Request_token_turn(p, o, s, tl) ==
    /\ ~exited
    /\ loc[p].pc = "idle"
    /\ LET got == parse_state_string(s)
           fen == IF got.turn = <<"black">> /\ got.fen = <<"Wn">> THEN <<"Bn">>
                  ELSE IF got.turn = <<"white">> /\ got.fen = <<"Bn">> THEN <<"Wn">>
                  ELSE got.fen
           l   == [Idle EXCEPT !.op = o, !.state_string = s, !.req_limit = tl]
       IN  IF ~got.ok
           THEN Set(p, Raise(l, "ValueError"))
           ELSE Set(p, [l EXCEPT !.pc = "get_analyzer",
                                 !.time_limit = clamp_time_limit(tl),
                                 !.board = Board(fen)])
    /\ UNCHANGED <<svc_vars, parse_vars>>

Request(p, o, s, tl) ==
    /\ ~exited
    /\ loc[p].pc = "idle"
    /\ LET got == parse_state_string(s)
           l   == [Idle EXCEPT !.op = o, !.state_string = s, !.req_limit = tl]
       IN  IF ~got.ok
           THEN Set(p, Raise(l, "ValueError"))
           ELSE Set(p, [l EXCEPT !.pc = "get_analyzer",
                                 !.time_limit = clamp_time_limit(tl),
                                 !.board = Board(got.fen)])
    /\ UNCHANGED <<svc_vars, parse_vars>>

\* ChessService.start_engine, lines 51-56: enters _get_analyzer
StartEngine(p) ==
    /\ ~exited
    /\ loc[p].pc = "idle"
    /\ Set(p, [Idle EXCEPT !.op = "start", !.pc = "get_analyzer"])
    /\ UNCHANGED <<svc_vars, parse_vars>>

\* ChessService.stop_engine, lines 58-66, with ChessAnalyzer.quit_engine
\* (chess_scoring.py lines 61-68).  engine.quit() ends the process ("quit")
\* or raises, and then nothing is known of the process ("lost").
StopEngine(p) ==
    /\ ~exited
    /\ loc[p].pc = "idle"
    /\ LET l == [Idle EXCEPT !.op = "stop"]
           ok == [l EXCEPT !.pc = "done", !.resp = Some([status |-> "ok", body |-> None])]
       IN  IF svc_analyzer # 0
           THEN \E quit_raises \in BOOLEAN :
                  /\ analyzers' =
                        IF EngineSet(svc_analyzer)
                        THEN [analyzers EXCEPT ![svc_analyzer].engine =
                                  IF quit_raises THEN "lost" ELSE "quit"]
                        ELSE analyzers
                  /\ svc_analyzer' = 0
                  /\ Set(p, IF quit_propagates(quit_raises) THEN Raise(l, "RuntimeError")
                                                            ELSE ok)
           ELSE /\ Set(p, ok)
                /\ UNCHANGED <<analyzers, svc_analyzer>>
    /\ session_started' = FALSE
    /\ UNCHANGED <<svc_engine_path, stockfish_exists, pov_score_mate, exited, parse_vars>>

\* ChessService.health_check, lines 204-227, as called by the health route
HealthCheck(p) ==
    /\ ~exited
    /\ loc[p].pc = "idle"
    /\ Set(p, Return([Idle EXCEPT !.op = "health"], health_check))
    /\ UNCHANGED <<svc_vars, parse_vars>>

\* _get_analyzer, line 26: if self._analyzer is None
GetAnalyzer_always_initialize(p) ==
    /\ ~exited
    /\ loc[p].pc = "get_analyzer"
    /\ Set(p, [loc[p] EXCEPT !.pc = "initialize"])
    /\ UNCHANGED <<svc_vars, parse_vars>>

GetAnalyzer(p) ==
    /\ ~exited
    /\ loc[p].pc = "get_analyzer"
    /\ Set(p, [loc[p] EXCEPT !.pc = IF svc_analyzer = 0 THEN "initialize"
                                                        ELSE "return_analyzer"])
    /\ UNCHANGED <<svc_vars, parse_vars>>

\* _initialize_analyzer, lines 32-48: resolve the path, build the analyzer
InitializeAnalyzer(p) ==
    /\ ~exited
    /\ loc[p].pc = "initialize"
    /\ Len(analyzers) < MaxAnalyzers
    /\ LET path == IF svc_engine_path = None
                   THEN find_stockfish_path(stockfish_exists)
                   ELSE Val(svc_engine_path)
       IN  /\ svc_engine_path' = Some(path)
           /\ analyzers' = Append(analyzers,
                  [engine_path |-> path, engine |-> "none", launches |-> 0])
           /\ svc_analyzer' = Len(analyzers) + 1
    /\ Set(p, [loc[p] EXCEPT !.pc = "start_engine"])
    /\ UNCHANGED <<stockfish_exists, pov_score_mate, session_started, exited, parse_vars>>

\* _initialize_analyzer, line 49: self._analyzer.start_engine()
\* (chess_scoring.py lines 49-59: sys.exit(1) when the engine cannot be started)
AnalyzerStartEngine(p) ==
    /\ ~exited
    /\ loc[p].pc = "start_engine"
    /\ IF svc_analyzer = 0
       THEN /\ Set(p, Raise(loc[p], IF loc[p].op = "start" THEN "RuntimeError"
                                                            ELSE "AttributeError"))
            /\ UNCHANGED <<analyzers, session_started, exited>>
       ELSE IF path_exists(stockfish_exists, analyzers[svc_analyzer].engine_path)
       THEN /\ analyzers' = [analyzers EXCEPT ![svc_analyzer].engine = "running",
                                              ![svc_analyzer].launches = @ + 1]
            /\ session_started' = TRUE
            /\ Set(p, [loc[p] EXCEPT !.pc = "return_analyzer"])
            /\ UNCHANGED exited
       ELSE /\ exited' = TRUE
            /\ UNCHANGED <<analyzers, session_started, loc>>
    /\ UNCHANGED <<svc_analyzer, svc_engine_path, stockfish_exists, pov_score_mate, parse_vars>>

\* _get_analyzer, line 28: return self._analyzer; then the caller goes on:
\* start_engine returns, analyze_position enters get_board_analysis (lines
\* 373-385), get_best_move enters ChessAnalyzer.get_best_move
ReturnAnalyzer(p) ==
    /\ ~exited
    /\ loc[p].pc = "return_analyzer"
    /\ LET l == [loc[p] EXCEPT !.analyzer = svc_analyzer]
           legal == legal_moves_of(l.board)
       IN  IF l.op = "start" THEN Set(p, [l EXCEPT !.pc = "done",
                                            !.resp = Some([status |-> "ok", body |-> None])])
           ELSE IF svc_analyzer = 0 THEN Set(p, Raise(l, "RuntimeError"))
           ELSE IF l.op = "best" THEN Set(p, [l EXCEPT !.pc = "best_move"])
           ELSE Set(p, [l EXCEPT !.analysis = analysis_data_of(l.board),
                                 !.legal_moves = legal,
                                 !.i = 1,
                                 !.pc = IF legal = <<>> THEN "best_move" ELSE "push"])
    /\ UNCHANGED <<svc_vars, parse_vars>>

(***************************************************************************)
(* ChessAnalyzer.get_board_analysis (lines 387-445), one step per span     *)
(* between two calls of the engine, and ChessAnalyzer.analyze_position     *)
(* (lines 83-103) around each engine.analyse.                              *)
(***************************************************************************)
\* analyze_position, lines 98-103: the try/except lets no outcome of
\* engine.analyse leave as an exception
\* lines 407-408 and 487-488: score.mate() is called on the PovScore that
\* engine.analyse returned.  chess.engine.PovScore offers is_mate(); mate()
\* belongs to the Score it wraps.  Where PovScore has no mate() the call
\* raises AttributeError, outside every try block of the analyzer.
mate_raises(info) ==
    /\ info # EmptyInfo
    /\ info.score # None
    /\ is_mate(Val(info.score))
    /\ ~pov_score_mate

analyse_propagates_raised(outcome) == outcome.raised

analyse_propagates(outcome) == FALSE

\* the engine.analyse call that is about to start
CallOf_shared_position(l, board) ==
    LET busy == {q \in Procs : loc[q].calling}
    IN  [analyzer |-> l.analyzer,
         board |-> IF busy # {} THEN loc[CHOOSE q \in busy : TRUE].call.board ELSE board,
         limit |-> Limit(analyzer_limit(Some(l.time_limit)))]

\* the position of an earlier, finished call is analysed in place of the own one
CallOf_stale_position(l, board) ==
    LET earlier == {q \in Procs : loc[q].pc = "done" /\ loc[q].log # <<>>}
    IN  [analyzer |-> l.analyzer,
         board |-> IF earlier # {} THEN loc[CHOOSE q \in earlier : TRUE].log[1].board
                                   ELSE board,
         limit |-> Limit(analyzer_limit(Some(l.time_limit)))]

CallOf(l, board) ==
    [analyzer |-> l.analyzer, board |-> board,
     limit |-> Limit(analyzer_limit(Some(l.time_limit)))]

\* what engine.analyse can end in: a terminated engine only raises
CanEndIn(l, outcome) ==
    analyzers[l.call.analyzer].engine = "quit" => outcome.raised

Logged(l, outcome) ==
    [l EXCEPT !.calling = FALSE,
              !.call = NoCall,
              !.log = Append(@, [board |-> l.call.board, limit |-> l.call.limit,
                                 outcome |-> outcome])]

\* lines 389-392 and 83-99: push the move, check the engine, start the search
PushAnalyse(p) ==
    /\ ~exited
    /\ loc[p].pc = "push"
    /\ LET l == loc[p]
           b == push(l.board, l.legal_moves[l.i])
       IN  IF ~EngineSet(l.analyzer)
           THEN Set(p, Raise([l EXCEPT !.board = b], "RuntimeError"))
           ELSE Set(p, [l EXCEPT !.board = b, !.pc = "await_move",
                                 !.calling = TRUE, !.call = CallOf(l, b)])
    /\ UNCHANGED <<svc_vars, parse_vars>>

\* a search that raised is made again: the move is popped and pushed anew
AnalyseReturn_retry_failed(p, outcome) ==
    /\ ~exited
    /\ loc[p].pc = "await_move"
    /\ CanEndIn(loc[p], outcome)
    /\ LET l    == loc[p]
           info == info_of(outcome, l.board)
           ms   == Append(l.moves, move_data_of(l.legal_moves[l.i], info))
           last == l.i = Len(l.legal_moves)
       IN  IF analyse_propagates(outcome) \/ mate_raises(info)
           THEN Set(p, Raise(Logged(l, outcome), "RuntimeError"))
           ELSE IF outcome.raised
           THEN Set(p, [Logged(l, outcome) EXCEPT !.board = pop(l.board), !.pc = "push"])
           ELSE Set(p, [Logged(l, outcome) EXCEPT
                          !.board = pop(l.board),
                          !.moves = IF last THEN sort_moves(ms) ELSE ms,
                          !.i = @ + 1,
                          !.pc = IF last THEN "best_move" ELSE "push"])
    /\ UNCHANGED <<svc_vars, parse_vars>>

\* lines 99-103 and 394-445: the search ends, the record is built, the move is
\* popped and the record appended; after the last move the list is sorted
AnalyseReturn(p, outcome) ==
    /\ ~exited
    /\ loc[p].pc = "await_move"
    /\ CanEndIn(loc[p], outcome)
    /\ LET l    == loc[p]
           info == info_of(outcome, l.board)
           ms   == Append(l.moves, move_data_of(l.legal_moves[l.i], info))
           last == l.i = Len(l.legal_moves)
       IN  IF analyse_propagates(outcome) \/ mate_raises(info)
           THEN Set(p, Raise(Logged(l, outcome), "RuntimeError"))
           ELSE Set(p, [Logged(l, outcome) EXCEPT
                          !.board = pop(l.board),
                          !.moves = IF last THEN sort_moves(ms) ELSE ms,
                          !.i = @ + 1,
                          !.pc = IF last THEN "best_move" ELSE "push"])
    /\ UNCHANGED <<svc_vars, parse_vars>>

(***************************************************************************)
(* ChessAnalyzer.get_best_move (lines 458-506) and the end of the two      *)
(* service methods (chess_service.py lines 114-147 and 182-202).           *)
(***************************************************************************)
\* line 462 with lines 83-99: check the engine, start the direct search
BestMoveAnalyse_on_first_move(p) ==
    /\ ~exited
    /\ loc[p].pc = "best_move"
    /\ LET l == loc[p]
           b == IF legal_moves_of(l.board) # <<>>
                THEN push(l.board, legal_moves_of(l.board)[1]) ELSE l.board
       IN  IF ~EngineSet(l.analyzer)
           THEN Set(p, Raise(l, "RuntimeError"))
           ELSE Set(p, [l EXCEPT !.pc = "await_best", !.calling = TRUE,
                                 !.board = b, !.call = CallOf(l, b)])
    /\ UNCHANGED <<svc_vars, parse_vars>>

BestMoveAnalyse(p) ==
    /\ ~exited
    /\ loc[p].pc = "best_move"
    /\ LET l == loc[p]
       IN  IF ~EngineSet(l.analyzer)
           THEN Set(p, Raise(l, "RuntimeError"))
           ELSE Set(p, [l EXCEPT !.pc = "await_best", !.calling = TRUE,
                                 !.call = CallOf(l, l.board)])
    /\ UNCHANGED <<svc_vars, parse_vars>>

\* the direct search ends; the summary is built and the response returned
BestMoveReturn(p, outcome) ==
    /\ ~exited
    /\ loc[p].pc = "await_best"
    /\ CanEndIn(loc[p], outcome)
    /\ LET l    == loc[p]
           info == info_of(outcome, l.board)
           best == best_move_data_of(info)
           l1   == Logged(l, outcome)
       IN  IF analyse_propagates(outcome) \/ mate_raises(info)
           THEN Set(p, Raise(l1, "RuntimeError"))
           ELSE IF l.op = "analyze"
           THEN Set(p, Return(l1, AnalysisResponse(l.analysis, l.moves, best)))
           ELSE IF best.error # None THEN Set(p, Raise(l1, "RuntimeError"))
           ELSE IF best.best_move = None THEN Set(p, Raise(l1, "ValidationError"))
           ELSE Set(p, Return(l1, BestMoveResponse(best)))
    /\ UNCHANGED <<svc_vars, parse_vars>>

\* the caller has its answer; the thread is free for the next call
Respond(p) ==
    /\ ~exited
    /\ loc[p].pc = "done"
    /\ Set(p, Idle)
    /\ UNCHANGED <<svc_vars, parse_vars>>

(***************************************************************************)
(* The routes (app/api/chess_routes.py) in front of the service: the       *)
(* request body is validated by StateStringRequest before the handler      *)
(* runs, and the handler turns what the service raises into a status.      *)
(***************************************************************************)
\* StateStringRequest.validate_state_string, app/models/chess.py lines 25-39
validate_state_string(v) ==
    LET parts == Split(v)
    IN  /\ v # <<>>
        /\ Len(parts) >= 2
        /\ ~TurnRejected(Strip(parts[1]))

\* the constraints of the time_limit field; an explicit null passes
time_limit_allowed(time_limit) ==
    time_limit = None
    \/ (request_min_time <= Val(time_limit) /\ Val(time_limit) <= request_max_time)

\* the status of the HTTP response (chess_routes.py lines 55-65 and 80-90):
\* 422 when the body was rejected, 400 for a ValueError (pydantic's
\* ValidationError is one), 500 for a RuntimeError or any other exception
http_status(resp) ==
    IF resp.status = "ok" THEN 200
    ELSE IF resp.status = "RequestValidationError" THEN 422
    ELSE IF resp.status \in {"ValueError", "ValidationError"} THEN 400
    ELSE 500

\* POST /api/v1/analyze and /api/v1/best-move: the body is validated (given:
\* it has a time_limit field), then the handler calls the service
RouteRequest(p, o, s, given, tl) ==
    /\ ~exited
    /\ loc[p].pc = "idle"
    /\ LET time_limit == IF given THEN tl ELSE Some(request_default_time)
           l == [Idle EXCEPT !.op = o, !.state_string = s, !.req_limit = time_limit]
       IN  IF validate_state_string(s) /\ time_limit_allowed(time_limit)
           THEN Request(p, o, s, time_limit)
           ELSE /\ Set(p, Raise(l, "RequestValidationError"))
                /\ UNCHANGED <<svc_vars, parse_vars>>

(***************************************************************************)
(* Spec: two caller threads and the lifecycle thread, freely interleaved.  *)
(***************************************************************************)
Step(p) ==
    \/ GetAnalyzer(p)
    \/ InitializeAnalyzer(p)
    \/ AnalyzerStartEngine(p)
    \/ ReturnAnalyzer(p)
    \/ PushAnalyse(p)
    \/ \E outcome \in FewOutcomes : AnalyseReturn(p, outcome)
    \/ BestMoveAnalyse(p)
    \/ \E outcome \in FewOutcomes : BestMoveReturn(p, outcome)
    \/ Respond(p)

Next ==
    \/ \E p \in Callers, o \in {"analyze", "best"}, s \in FewRecords,
          tl \in FewTimeLimits : Request(p, o, s, tl)
    \/ StartEngine(Main)
    \/ StopEngine(Main)
    \/ HealthCheck(Main)
    \/ \E p \in Procs : Step(p)

Spec == Init /\ [][Next]_vars

(***************************************************************************)
(* SpecSolo: one call of the service at a time (every other thread is      *)
(* idle), with every outcome of the engine, every record and every         *)
(* requested time limit.                                                   *)
(***************************************************************************)
Solo(p) == \A q \in Procs \ {p} : loc[q].pc = "idle"

SoloRequest(p, o, s, tl) == Solo(p) /\ Request(p, o, s, tl)
SoloRouteRequest(p, o, s, given, tl) == Solo(p) /\ RouteRequest(p, o, s, given, tl)
SoloStartEngine(p) == Solo(p) /\ StartEngine(p)
SoloStopEngine(p) == Solo(p) /\ StopEngine(p)
SoloHealthCheck(p) == Solo(p) /\ HealthCheck(p)
SoloGetAnalyzer(p) == Solo(p) /\ GetAnalyzer(p)
SoloInitializeAnalyzer(p) == Solo(p) /\ InitializeAnalyzer(p)
SoloAnalyzerStartEngine(p) == Solo(p) /\ AnalyzerStartEngine(p)
SoloReturnAnalyzer(p) == Solo(p) /\ ReturnAnalyzer(p)
SoloPushAnalyse(p) == Solo(p) /\ PushAnalyse(p)
SoloAnalyseReturn(p, outcome) == Solo(p) /\ AnalyseReturn(p, outcome)
SoloBestMoveAnalyse(p) == Solo(p) /\ BestMoveAnalyse(p)
SoloBestMoveReturn(p, outcome) == Solo(p) /\ BestMoveReturn(p, outcome)
SoloRespond(p) == Solo(p) /\ Respond(p)

StepSolo(p) ==
    \/ SoloGetAnalyzer(p)
    \/ SoloInitializeAnalyzer(p)
    \/ SoloAnalyzerStartEngine(p)
    \/ SoloReturnAnalyzer(p)
    \/ SoloPushAnalyse(p)
    \/ \E outcome \in Outcomes : SoloAnalyseReturn(p, outcome)
    \/ SoloBestMoveAnalyse(p)
    \/ \E outcome \in Outcomes : SoloBestMoveReturn(p, outcome)
    \/ SoloRespond(p)

NextSolo ==
    \/ \E o \in {"analyze", "best"}, s \in Records, tl \in TimeLimits :
          SoloRequest("c1", o, s, tl)
    \/ \E o \in {"analyze", "best"}, s \in Records, given \in BOOLEAN, tl \in TimeLimits :
          SoloRouteRequest("c1", o, s, given, tl)
    \/ SoloStartEngine(Main)
    \/ SoloStopEngine(Main)
    \/ SoloHealthCheck(Main)
    \/ \E p \in {"c1", Main} : StepSolo(p)

SpecSolo == Init /\ [][NextSolo]_vars

(***************************************************************************)
(* SpecParse: the two parsers applied to every record of at most MaxLen    *)
(* symbols.                                                                *)
(***************************************************************************)
Symbols == {":", " ", "white", "black", "Wn"}

TypeSymbol(c) ==
    /\ parsed = None
    /\ Len(record) < MaxLen
    /\ record' = Append(record, c)
    /\ UNCHANGED <<svc_vars, loc, parsed>>

Parse ==
    /\ parsed = None
    /\ parsed' = Some([utils  |-> parse_state_string(record),
                       legacy |-> legacy_parse_state_string(record)])
    /\ UNCHANGED <<svc_vars, loc, record>>

InitParse == Init /\ stockfish_exists /\ pov_score_mate

NextParse == (\E c \in Symbols : TypeSymbol(c)) \/ Parse

SpecParse == InitParse /\ [][NextParse]_vars

(***************************************************************************)
(* SpecTwice: the same request made twice, the second time after the first *)
(* has its response, against an engine that is a fixed function of         *)
(* (position, limit): a search the engine has answered before ends in the  *)
(* same outcome again.                                                     *)
(***************************************************************************)
First == "c1"
Second == "c2"

\* the engine is a function: thread p's search ends as the same search did before
FixedEngine(p, outcome) ==
    \A q \in Callers : \A k \in 1..Len(loc[q].log) :
        /\ loc[q].log[k].board = loc[p].call.board
        /\ loc[q].log[k].limit = loc[p].call.limit
        => outcome = loc[q].log[k].outcome

AskFirst(o, s, tl) == loc[Second].pc = "idle" /\ Request(First, o, s, tl)

AskAgain ==
    /\ loc[First].pc = "done"
    /\ Request(Second, loc[First].op, loc[First].state_string, loc[First].req_limit)

\* a step of the call in progress; the responses are collected once both are in
StepTwice(p) ==
    /\ p = First => loc[Second].pc \in {"idle", "done"}
    /\ p = Second => loc[First].pc \in {"idle", "done"}
    /\ \/ GetAnalyzer(p)
       \/ InitializeAnalyzer(p)
       \/ AnalyzerStartEngine(p)
       \/ ReturnAnalyzer(p)
       \/ PushAnalyse(p)
       \/ \E outcome \in Outcomes : FixedEngine(p, outcome) /\ AnalyseReturn(p, outcome)
       \/ BestMoveAnalyse(p)
       \/ \E outcome \in Outcomes : FixedEngine(p, outcome) /\ BestMoveReturn(p, outcome)
       \/ (\A q \in Callers : loc[q].pc = "done" \/ (q # p /\ loc[q].pc = "idle"))
          /\ Respond(p)

NextTwice ==
    \/ \E o \in {"analyze", "best"}, s \in Records, tl \in FewTimeLimits :
          AskFirst(o, s, tl)
    \/ AskAgain
    \/ \E p \in Callers : StepTwice(p)

SpecTwice == Init /\ [][NextTwice]_vars

(***************************************************************************)
(* SpecRequests: analyze_position and get_best_move calls of two threads,  *)
(* freely interleaved, without the lifecycle thread.                       *)
(***************************************************************************)
NextRequests ==
    \/ \E p \in Callers, o \in {"analyze", "best"}, s \in PairRecords,
          tl \in FewTimeLimits : Request(p, o, s, tl)
    \/ \E p \in Callers : Step(p)

SpecRequests == Init /\ [][NextRequests]_vars

(***************************************************************************)
(* Fairness: every thread that can take a step eventually takes one, and   *)
(* every engine.analyse call ends (the engine enforces the limit).         *)
(***************************************************************************)
\* FairSpec: analyze_position calls of two threads, freely interleaved, on a
\* service whose engine the first of them starts (_get_analyzer, line 27)
NextPair ==
    \/ \E p \in Callers, s \in PairRecords, tl \in FewTimeLimits :
          Request(p, "analyze", s, tl)
    \/ \E p \in Callers : Step(p)

FairSpec == Init /\ [][NextPair]_vars /\ \A p \in Callers : WF_vars(Step(p))

(***************************************************************************)
(* Vocabulary of the properties.                                           *)
(***************************************************************************)
\* the board the record of thread p names
OwnBoard(p) == Board(parse_state_string(loc[p].state_string).fen)

\* thread p is in analyze_position and get_board_analysis has returned
AfterBoardAnalysis(p) ==
    /\ loc[p].op = "analyze"
    /\ \/ loc[p].pc \in {"best_move", "await_best"}
       \/ loc[p].pc = "done" /\ Val(loc[p].resp).status = "ok"

\* thread p has its response
Answered(p) == loc[p].pc = "done" /\ Val(loc[p].resp).status = "ok"

\* the engine.analyse calls of thread p made with a move applied
PerMoveCalls(p) == {k \in 1..Len(loc[p].log) : loc[p].log[k].board.stack # <<>>}

\* the threads with an engine.analyse call in flight on analyzer a
InFlight(a) == {p \in Procs : loc[p].calling /\ loc[p].call.analyzer = a}

(***************************************************************************)
(* C1.  At most one engine.analyse call is in flight on an engine at any  *)
(* time: a second call never starts before the current one has returned.   *)
(* The code holds no lock; two callers reach engine.analyse together.      *)
(***************************************************************************)
C1_OneAnalyseInFlight ==
    \A a \in 1..Len(analyzers) : Cardinality(InFlight(a)) <= 1

(***************************************************************************)
(* C2.  Simultaneous analyze_position calls on a started engine session    *)
(* all complete with a response, and nothing of one call leaks into the    *)
(* other: every engine.analyse call of a request is made on the position   *)
(* its own record names (with one of its legal moves applied, or none),    *)
(* and every per-move record and the summary of its response are built     *)
(* from the outcomes of those calls.                                       *)
(***************************************************************************)
\* the record of the k-th legal move, from what thread p's k-th call returned
RecordFromOwnCall(p, k) ==
    move_data_of(loc[p].legal_moves[k],
                 info_of(loc[p].log[k].outcome, loc[p].log[k].board))

OwnCallsOnly(p) ==
    LET l == loc[p]
        n == Len(l.legal_moves)
        onOwn(board, k) ==
            /\ board.root = OwnBoard(p).root
            /\ board.stack = IF k <= n THEN <<l.legal_moves[k]>> ELSE <<>>
    IN  l.op = "analyze" =>
          /\ \A k \in 1..Len(l.log) : onOwn(l.log[k].board, k)
          /\ l.calling => onOwn(l.call.board, Len(l.log) + 1)
          /\ Answered(p) =>
                LET body == Val(Val(l.resp).body)
                    best == best_move_data_of(
                                info_of(l.log[n + 1].outcome, l.log[n + 1].board))
                IN  /\ Len(l.log) = n + 1
                    /\ Len(body.moves) = n
                    /\ \A k \in 1..n : \E j \in 1..n :
                          body.moves[j] = RecordFromOwnCall(p, k)
                    /\ body.fen = fen_of(OwnBoard(p))
                    /\ body.best_move = best.best_move
                    /\ body.advantage = best.advantage
                    /\ body.is_mate = best.is_mate
                    /\ body.mate_in = best.mate_in
                    /\ body.principal_variation = best.principal_variation

\* thread p is inside analyze_position with an analyzer whose engine was started
Analysing(p) ==
    /\ loc[p].op = "analyze"
    /\ loc[p].pc \in {"push", "await_move", "best_move", "await_best"}
    /\ EngineSet(loc[p].analyzer)

C3_BoardUnchanged ==
    \A p \in Procs : AfterBoardAnalysis(p) =>
        /\ loc[p].board = OwnBoard(p)
        /\ fen_of(loc[p].board) = loc[p].analysis.fen

\* get_board_analysis has just returned after pushing and popping every move
C3_Witness ==
    /\ AfterBoardAnalysis("c1")
    /\ loc["c1"].pc = "best_move"
    /\ Len(loc["c1"].log) = MaxMoves

(***************************************************************************)
(* C4.  get_board_analysis returns exactly one record per legal move: the  *)
(* list is as long as total_moves and as the list of legal moves, every    *)
(* legal move appears exactly once, and with no legal move the list is     *)
(* empty and no per-move engine call was made.                             *)
(***************************************************************************)
RecordsOf(p, move) ==
    {j \in 1..Len(loc[p].moves) : loc[p].moves[j].move = MoveStr(move)}

C4_OneRecordPerLegalMove ==
    \A p \in Procs : AfterBoardAnalysis(p) =>
        LET legal == legal_moves_of(OwnBoard(p))
        IN  /\ Len(loc[p].moves) = Len(legal)
            /\ loc[p].analysis.total_moves = Len(legal)
            /\ \A k \in 1..Len(legal) : Cardinality(RecordsOf(p, legal[k])) = 1
            /\ legal = <<>> => loc[p].moves = <<>> /\ PerMoveCalls(p) = {}

C4_Witness ==
    /\ Answered("c1")
    /\ loc["c1"].op = "analyze"
    /\ Len(Val(Val(loc["c1"].resp).body).moves) = MaxMoves
    /\ Len(loc["c1"].log) = MaxMoves + 1
    /\ loc["c1"].log[1].outcome = loc["c1"].log[2].outcome

(***************************************************************************)
(* What the engine said about a move, in the absolute convention.          *)
(***************************************************************************)
\* the engine.analyse call thread p made for its k-th legal move
CallFor(p, k) == loc[p].log[k]

\* the record thread p holds for its k-th legal move
RecordFor(p, k) ==
    loc[p].moves[CHOOSE j \in 1..Len(loc[p].moves) :
                    loc[p].moves[j].move = MoveStr(loc[p].legal_moves[k])]

HasCp(entry) ==
    ~entry.outcome.raised /\ entry.outcome.score # None
    /\ Val(entry.outcome.score).t = "cp"

HasMate(entry) ==
    ~entry.outcome.raised /\ entry.outcome.score # None
    /\ Val(entry.outcome.score).t = "mate"

\* the engine's number is relative to the side to move of the analysed board
WhiteCentipawns(entry) ==
    IF turn_of(entry.board) = WHITE THEN Val(entry.outcome.score).v
    ELSE -Val(entry.outcome.score).v

\* a mate score: white delivers the mate
WhiteMates(entry) == WhiteCentipawns(entry) > 0

\* the rank of a scored move: 1 white mates, -1 white is mated, 0 a finite advantage
RankClass(entry) ==
    IF HasMate(entry) THEN (IF WhiteMates(entry) THEN 1 ELSE -1) ELSE 0

\* effectiveAdvantage(a) >= effectiveAdvantage(b)
EffectiveGE(a, b) ==
    \/ RankClass(a) > RankClass(b)
    \/ RankClass(a) = RankClass(b) /\ RankClass(a) # 0
    \/ RankClass(a) = 0 /\ RankClass(b) = 0
       /\ WhiteCentipawns(a) >= WhiteCentipawns(b)

\* the engine.analyse call behind the record at position j of the ranked list
CallBehind(p, j) ==
    CallFor(p, CHOOSE k \in 1..Len(loc[p].legal_moves) :
                   MoveStr(loc[p].legal_moves[k]) = loc[p].moves[j].move)

\* the summary call of thread p: the one made on the position itself
SummaryCalls(p) ==
    {k \in 1..Len(loc[p].log) : loc[p].log[k].board.stack = <<>>}

\* the summary thread p returned
Summary(p) == Val(Val(loc[p].resp).body)

(***************************************************************************)
(* C5.  The ranked list is sorted by effective advantage: for every        *)
(* adjacent pair of scored records the first is at least the second, a     *)
(* mate delivered by white above every finite advantage and a mate against *)
(* white below every finite advantage.  The code sorts every mate, whoever *)
(* delivers it, under the key -999, and finite advantages by the engine's  *)
(* side-relative number.                                                   *)
(***************************************************************************)
C5_RankedByEffectiveAdvantage ==
    \A p \in Procs : AfterBoardAnalysis(p) =>
        \A j \in 1..(Len(loc[p].moves) - 1) :
            LET a == CallBehind(p, j)
                b == CallBehind(p, j + 1)
            IN  (HasCp(a) \/ HasMate(a)) /\ (HasCp(b) \/ HasMate(b))
                    => EffectiveGE(a, b)

(***************************************************************************)
(* C6.  A centipawn score is reported white-relative: raw/100 when white   *)
(* is to move in the analysed position and -raw/100 when black is, in the  *)
(* per-move records (side to move after the move) and in the summary of    *)
(* get_best_move.  The code reports raw/100 whichever side is to move.     *)
(***************************************************************************)
WhiteRelative(advantage, entry) ==
    /\ advantage # None
    /\ FracEq(Val(advantage), Frac(WhiteCentipawns(entry), 100))

C6_WhiteRelativeAdvantage ==
    \A p \in Procs :
        /\ AfterBoardAnalysis(p) =>
              \A k \in 1..Len(loc[p].legal_moves) :
                  HasCp(CallFor(p, k))
                      => WhiteRelative(RecordFor(p, k).white_advantage, CallFor(p, k))
        /\ Answered(p) =>
              \A k \in SummaryCalls(p) :
                  HasCp(loc[p].log[k])
                      => WhiteRelative(Summary(p).advantage, loc[p].log[k])

(***************************************************************************)
(* C7.  A mate score gives is_mate = true, advantage = null and mate_in    *)
(* signed in the absolute convention: positive when white delivers the     *)
(* mate, negative when white is mated, whichever side is to move.  The     *)
(* code reports the engine's side-relative mate distance unconverted, or   *)
(* fails on score.mate() where the score object has no such method.        *)
(***************************************************************************)
AbsoluteMate(is_mate_field, advantage, mate_in, entry) ==
    /\ is_mate_field = TRUE
    /\ advantage = None
    /\ mate_in # None
    /\ (Val(mate_in) > 0) = WhiteMates(entry)
    /\ (Val(mate_in) < 0) = ~WhiteMates(entry)

C7_MateAbsoluteConvention ==
    \A p \in Procs :
        /\ AfterBoardAnalysis(p) =>
              \A k \in 1..Len(loc[p].legal_moves) :
                  HasMate(CallFor(p, k))
                      => AbsoluteMate(RecordFor(p, k).is_mate,
                                      RecordFor(p, k).white_advantage,
                                      RecordFor(p, k).mate_in, CallFor(p, k))
        /\ Answered(p) =>
              \A k \in SummaryCalls(p) :
                  HasMate(loc[p].log[k])
                      => AbsoluteMate(Summary(p).is_mate, Summary(p).advantage,
                                      Summary(p).mate_in, loc[p].log[k])

(***************************************************************************)
(* C9.  The effective time limit of a request is the configured default    *)
(* when none is given, the configured ceiling when the requested one is    *)
(* above it, and the requested value unchanged otherwise (values below the *)
(* floor included); every engine call of the request, per-move and         *)
(* summary, runs under it and never under a larger requested one.          *)
(***************************************************************************)
EffectiveLimit(requested) ==
    IF requested = None THEN default_analysis_time
    ELSE IF Val(requested) > max_analysis_time THEN max_analysis_time
    ELSE Val(requested)

UnderEffectiveLimit(p, limit) ==
    /\ limit.time = EffectiveLimit(loc[p].req_limit)
    /\ limit.time <= max_analysis_time

C9_EffectiveTimeLimit ==
    \A p \in Procs : loc[p].op \in {"analyze", "best"} =>
        /\ \A k \in 1..Len(loc[p].log) : UnderEffectiveLimit(p, loc[p].log[k].limit)
        /\ loc[p].calling => UnderEffectiveLimit(p, loc[p].call.limit)

\* a request above the ceiling answered after its per-move and summary calls
C9_Witness ==
    /\ Answered("c1")
    /\ loc["c1"].op = "analyze"
    /\ loc["c1"].req_limit = Some(max_analysis_time + 1)
    /\ Len(loc["c1"].log) = MaxMoves + 1
    /\ \A k \in 1..Len(loc["c1"].log) :
           loc["c1"].log[k].limit.time = max_analysis_time

(***************************************************************************)
(* C10.  In get_board_analysis an analysis failure for one move yields a   *)
(* record for that move with every analysis field null and does not abort  *)
(* the batch: every remaining legal move is still evaluated and the call   *)
(* returns a record for every legal move.  A request that ends in an error *)
(* after a failed move ends on a later call, never on the failed one.      *)
(***************************************************************************)
AnalysisFailed(entry) == entry.outcome.raised \/ entry.outcome.score = None

AllNull(move_data) ==
    /\ move_data.white_advantage = None
    /\ move_data.is_mate = FALSE
    /\ move_data.mate_in = None
    /\ move_data.best_response = None
    /\ move_data.depth_reached = None
    /\ move_data.nodes_searched = None

\* the per-move calls of thread p that failed
FailedMoves(p) == {k \in PerMoveCalls(p) : AnalysisFailed(loc[p].log[k])}

C10_FailureDoesNotAbortBatch ==
    \A p \in Procs : loc[p].op = "analyze" /\ FailedMoves(p) # {} =>
        /\ \A k \in FailedMoves(p) :
               /\ Cardinality(RecordsOf(p, loc[p].legal_moves[k])) = 1
               /\ AllNull(RecordFor(p, k))
        /\ loc[p].pc = "done" /\ Val(loc[p].resp).status # "ok"
               => Len(loc[p].log) \notin FailedMoves(p)
        /\ loc[p].pc \in {"push", "await_move"}
               => loc[p].i = Len(loc[p].moves) + 1 /\ loc[p].i > Cardinality(FailedMoves(p))
        /\ AfterBoardAnalysis(p) =>
               /\ PerMoveCalls(p) = 1..Len(loc[p].legal_moves)
               /\ \A k \in 1..Len(loc[p].legal_moves) :
                      Cardinality(RecordsOf(p, loc[p].legal_moves[k])) = 1

\* the first move failed, the second was still evaluated, the call returned
C10_Witness ==
    /\ Answered("c1")
    /\ loc["c1"].op = "analyze"
    /\ Len(loc["c1"].log) = MaxMoves + 1
    /\ loc["c1"].log[1].outcome.raised
    /\ HasCp(loc["c1"].log[2])
    /\ loc["c1"].log[2].board.stack # <<>>
    /\ Len(Summary("c1").moves) = MaxMoves

(***************************************************************************)
(* What splitting and stripping mean, stated without the recursion of      *)
(* Split and Strip.                                                        *)
(***************************************************************************)
Blank(s) == \A i \in 1..Len(s) : s[i] = " "

HasSeparator(s) == \E i \in 1..(Len(s) - 1) : s[i] = ":" /\ s[i + 1] = ":"

RECURSIVE Join(_)
Join(parts) ==
    IF Len(parts) = 1 THEN parts[1]
    ELSE parts[1] \o <<":", ":">> \o Join(Tail(parts))

\* parts are the segments of s between its "::" separators, taken left to right
IsSplitOf(parts, s) ==
    /\ Len(parts) >= 1
    /\ Join(parts) = s
    /\ ~HasSeparator(parts[Len(parts)])
    /\ \A k \in 1..(Len(parts) - 1) : ~HasSeparator(Append(parts[k], ":"))

\* t is s without its leading and trailing blanks
IsStripOf(t, s) ==
    /\ t # <<>> => t[1] # " " /\ t[Len(t)] # " "
    /\ \E a \in 0..Len(s) :
           /\ a + Len(t) <= Len(s)
           /\ Blank(SubSeq(s, 1, a))
           /\ SubSeq(s, a + 1, a + Len(t)) = t
           /\ Blank(SubSeq(s, a + Len(t) + 1, Len(s)))

Stripped(s) ==
    CHOOSE t \in {SubSeq(s, a, b) : a \in 1..(Len(s) + 1), b \in 0..Len(s)} :
        IsStripOf(t, s)

\* result is what the record s must parse to; fen_checked: the parser itself
\* asks the rules library about the FEN
ParsesTo(result, s, fen_checked) ==
    LET parts == Split(s)
    IN  /\ IsSplitOf(parts, s)
        /\ IF Len(parts) < 2 THEN result = ValueError
           ELSE LET turn == Stripped(parts[1])
                    fen  == Stripped(parts[2])
                IN  IF turn \notin {<<"white">>, <<"black">>} THEN result = ValueError
                    ELSE IF fen_checked /\ BoardRejects(fen) THEN result = ValueError
                    ELSE /\ result.ok
                         /\ result.turn = turn
                         /\ result.fen = fen
                         /\ Len(parts) = 2 => result.arrows = <<>>
                         /\ Len(parts) > 2 => result.arrows = Stripped(parts[3])

(***************************************************************************)
(* C8.  parse_state_string splits the record on "::": with a turn of       *)
(* white or black and a FEN the rules library accepts it returns (turn,    *)
(* fen, arrows), arrows empty when the third segment is missing or empty;  *)
(* with fewer than 2 segments, another turn token or a rejected FEN it     *)
(* raises ValueError and returns no tuple.  As stated, of both parsers:    *)
(***************************************************************************)
C8_BothParsersValidate ==
    parsed # None =>
        /\ ParsesTo(Val(parsed).utils, record, TRUE)
        /\ ParsesTo(Val(parsed).legacy, record, TRUE)

(***************************************************************************)
(* C8, amended.  The parser of app/utils/chess_utils.py behaves as stated. *)
(* The parser of the legacy main.py checks the segment count and the turn  *)
(* token only: for a FEN the rules library rejects it returns the tuple.   *)
(***************************************************************************)
C8_ParseStateString ==
    parsed # None =>
        /\ ParsesTo(Val(parsed).utils, record, TRUE)
        /\ ParsesTo(Val(parsed).legacy, record, FALSE)

\* "white::<valid FEN>::" was parsed: arrows empty, by both parsers
C8_Witness ==
    /\ parsed # None
    /\ record = <<"white", ":", ":", "Wn", ":", ":">>
    /\ Val(parsed).utils = Parsed(<<"white">>, <<"Wn">>, <<>>)
    /\ Val(parsed).legacy = Val(parsed).utils


\* the engine gave nothing usable: it failed, or returned neither a score
\* nor a principal variation
Unusable(outcome) == outcome.raised \/ (outcome.score = None /\ outcome.pv = <<>>)

(***************************************************************************)
(* C11.  analyze_position and get_best_move of the service fail with an    *)
(* analysis-failed error whenever the direct engine call on the position   *)
(* itself fails or returns nothing usable; no successful response is       *)
(* returned then.  analyze_position never looks at the "error" key of the  *)
(* summary and answers with an empty summary.                              *)
(***************************************************************************)
C11_SummaryFailurePropagates ==
    \A p \in Procs :
        /\ loc[p].op \in {"analyze", "best"}
        /\ loc[p].pc = "done"
        /\ \E k \in SummaryCalls(p) : Unusable(loc[p].log[k].outcome)
        => Val(loc[p].resp).status # "ok"


(***************************************************************************)
(* The engine session of the service.                                      *)
(***************************************************************************)
\* what start_engine and stop_engine act on
Session == <<svc_analyzer, svc_engine_path, analyzers>>

\* the service holds an analyzer whose engine was launched and not quit
SessionRunning == svc_analyzer # 0 /\ analyzers[svc_analyzer].engine = "running"

\* engine launches so far, over all analyzers
RECURSIVE LaunchesOf(_)
LaunchesOf(as) == IF as = <<>> THEN 0 ELSE Head(as).launches + LaunchesOf(Tail(as))

\* thread p takes a step of a call of operation o: it begins, goes on or ends
StepOf(p, o) == loc'[p] # loc[p] /\ (loc[p].op = o \/ loc'[p].op = o)

(***************************************************************************)
(* C12.  start_engine and stop_engine are idempotent: no step of a         *)
(* start_engine call on a started session launches an engine or changes    *)
(* the session, and stop_engine on a session that is not started changes   *)
(* nothing and returns normally; so after any sequence of starts and stops *)
(* the session is the one the last effective call left.                    *)
(***************************************************************************)
C12_StartStopIdempotent ==
    [][\A p \in Procs :
          /\ SessionRunning /\ StepOf(p, "start")
                => /\ Session' = Session
                   /\ LaunchesOf(analyzers') = LaunchesOf(analyzers)
                   /\ loc'[p].pc \in {"get_analyzer", "return_analyzer", "done", "idle"}
                   /\ loc'[p].pc = "done" => Val(loc'[p].resp).status = "ok"
          /\ svc_analyzer = 0 /\ StepOf(p, "stop") /\ loc[p].pc = "idle"
                => /\ Session' = Session
                   /\ Val(loc'[p].resp).status = "ok"]_vars

\* start_engine has been called on a session that is running, after one launch
C12_Witness ==
    /\ loc[Main].op = "start"
    /\ loc[Main].pc = "get_analyzer"
    /\ SessionRunning
    /\ session_started
    /\ LaunchesOf(analyzers) = 1


(***************************************************************************)
(* C13.  The engine session is created only by the explicit start and      *)
(* never inside a request: an analyze_position or get_best_move call never *)
(* enters _initialize_analyzer, where an analyzer is built and an engine   *)
(* launched (a call made while no session exists fails instead).  The code *)
(* creates the session lazily in _get_analyzer, inside the request.        *)
(***************************************************************************)
C13_NoSessionCreatedInRequest ==
    \A p \in Procs : loc[p].op \in {"analyze", "best"} =>
        loc[p].pc \notin {"initialize", "start_engine"}


(***************************************************************************)
(* C14.  When the engine executable cannot be located or launched,         *)
(* start_engine fails with an engine-unavailable error delivered to its    *)
(* caller and the service does not become ready.  In the code              *)
(* ChessAnalyzer.start_engine answers every launch failure with            *)
(* sys.exit(1): the caller gets no error, the process ends.                *)
(***************************************************************************)
C14_StartFailureDelivered ==
    \A p \in Procs : loc[p].op = "start" =>
        /\ ~exited
        /\ loc[p].pc = "done" /\ ~stockfish_exists
              => Val(loc[p].resp).status = "RuntimeError" /\ ~is_engine_ready


(***************************************************************************)
(* C15.  In every reachable state is_engine_ready, and the "healthy"       *)
(* status of health_check, is true exactly when the engine session has     *)
(* been started successfully and has not been stopped since.  It holds     *)
(* while calls are made one at a time; when two calls initialise the       *)
(* service together (C17) the second replaces the started analyzer by one  *)
(* whose engine is not launched yet, and the service reports not ready.    *)
(***************************************************************************)
C15_ReadyIffStarted ==
    /\ is_engine_ready = session_started
    /\ (health_check.status = "healthy") = session_started


(***************************************************************************)
(* C16.  stop_engine never raises to its caller: when quitting the engine  *)
(* fails the failure is only printed, and the session still ends stopped:  *)
(* no analyzer held, not ready.                                            *)
(***************************************************************************)
C16_StopNeverRaises ==
    \A p \in Procs : loc[p].op = "stop" =>
        /\ loc[p].pc = "done"
        /\ Val(loc[p].resp).status = "ok"
        /\ svc_analyzer = 0
        /\ ~is_engine_ready
        /\ health_check.status = "unhealthy"

\* stop_engine has returned although engine.quit() raised
C16_Witness ==
    /\ loc[Main].op = "stop"
    /\ loc[Main].pc = "done"
    /\ Val(loc[Main].resp).status = "ok"
    /\ \E a \in 1..Len(analyzers) : analyzers[a].engine = "lost"
    /\ \A a \in 1..Len(analyzers) : analyzers[a].engine # "running"


\* engine processes launched on analyzer a and not ended by engine.quit():
\* quit_engine reaches only the last process launched on the analyzer
AliveOn(a) ==
    IF a.engine = "running" THEN a.launches
    ELSE IF a.launches > 0 THEN a.launches - 1
    ELSE 0

RECURSIVE AliveProcesses(_)
AliveProcesses(as) ==
    IF as = <<>> THEN 0 ELSE AliveOn(Head(as)) + AliveProcesses(Tail(as))

(***************************************************************************)
(* C17.  Exactly one engine process backs all requests: under any          *)
(* interleaving of start_engine and concurrent requests, also ones that    *)
(* both find the analyzer uninitialised, at most one engine process is     *)
(* launched and alive at a time.  _get_analyzer tests and initialises      *)
(* without a lock: two callers each launch an engine.                      *)
(***************************************************************************)
C17_OneEngineProcess == AliveProcesses(analyzers) <= 1


C19_NullAdvantageIffMate ==
    \A p \in Procs : loc[p].op = "analyze" =>
        \A j \in 1..Len(loc[p].moves) :
            (loc[p].moves[j].white_advantage = None) = loc[p].moves[j].is_mate

(***************************************************************************)
(* C19, amended.  A record with is_mate = true has a null advantage; a     *)
(* record with a null advantage is a forced mate or the all-null record of *)
(* a move whose analysis failed or returned no score, and that one has     *)
(* is_mate = false.                                                        *)
(***************************************************************************)
C19_NullAdvantageIffMateOrFailed ==
    \A p \in Procs : loc[p].op = "analyze" =>
        \A k \in 1..Len(loc[p].moves) :
            LET r == RecordFor(p, k)
                e == CallFor(p, k)
            IN  /\ r.is_mate = HasMate(e)
                /\ r.is_mate => r.white_advantage = None
                /\ (r.white_advantage = None) = (r.is_mate \/ AnalysisFailed(e))
                /\ AnalysisFailed(e) => ~r.is_mate /\ AllNull(r)

\* a returned list with the record of a failed move and the record of a mate
C19_Witness ==
    /\ Answered("c1")
    /\ loc["c1"].op = "analyze"
    /\ Len(Summary("c1").moves) = MaxMoves
    /\ AnalysisFailed(CallFor("c1", 1))
    /\ HasMate(CallFor("c1", 2))
    /\ RecordFor("c1", 2).is_mate
    /\ RecordFor("c1", 1).white_advantage = None


(***************************************************************************)
(* C20.  get_best_move of the service skips the per-move enumeration: it   *)
(* issues exactly one engine.analyse call, on the given position itself,   *)
(* and applies or reverts no move on any position.                         *)
(***************************************************************************)
\* the engine.analyse calls of thread p so far, the one in flight included
CallsOf(p) == Len(loc[p].log) + (IF loc[p].calling THEN 1 ELSE 0)

\* thread p is in get_best_move of the service with a record that parsed
\* (the call was not refused by the parser, nor by the route before it)
InBestMove(p) ==
    /\ loc[p].op = "best"
    /\ loc[p].pc = "done"
          => Val(loc[p].resp).status \notin {"ValueError", "RequestValidationError"}

C20_BestMoveSingleCall ==
    \A p \in Procs : InBestMove(p) =>
        /\ loc[p].board = OwnBoard(p)
        /\ loc[p].moves = <<>>
        /\ CallsOf(p) <= 1
        /\ loc[p].calling => loc[p].call.board = OwnBoard(p)
        /\ \A k \in 1..Len(loc[p].log) : loc[p].log[k].board = OwnBoard(p)
        /\ Answered(p) => Len(loc[p].log) = 1

\* get_best_move has answered a position that has legal moves
C20_Witness ==
    /\ Answered("c1")
    /\ loc["c1"].op = "best"
    /\ legal_moves_of(OwnBoard("c1")) # <<>>
    /\ Len(loc["c1"].log) = 1



\* the principal variation the engine returned in an entry of the call log
EnginePv(entry) == IF entry.outcome.raised THEN <<>> ELSE entry.outcome.pv

\* the smaller of two numbers
Min(a, b) == IF a < b THEN a ELSE b

(***************************************************************************)
(* C21.  The principal variation of a best-move summary is the prefix of   *)
(* the engine's principal variation, cut to at most 5 plies, in play       *)
(* order; best_move is its first element, and the list is empty when the   *)
(* engine returned no variation.                                           *)
(***************************************************************************)
C21_PrincipalVariationPrefix ==
    \A p \in Procs : Answered(p) /\ loc[p].op \in {"analyze", "best"} =>
        LET pv  == EnginePv(loc[p].log[Len(loc[p].log)])
            got == Summary(p).principal_variation
        IN  /\ Len(got) = Min(Len(pv), 5)
            /\ \A i \in 1..Len(got) : got[i] = MoveStr(pv[i])
            /\ pv # <<>> => Summary(p).best_move = Some(got[1])
            /\ pv = <<>> => got = <<>> /\ Summary(p).best_move = None

\* a summary was returned for a search whose variation is longer than 5 plies
C21_Witness ==
    /\ Answered("c1")
    /\ loc["c1"].op = "best"
    /\ Len(EnginePv(loc["c1"].log[1])) > 5
    /\ Len(Summary("c1").principal_variation) = 5
    /\ Summary("c1").best_move = Some(MoveStr(PvLine[1]))



\* the record has a turn token, and it is neither "white" nor "black"
BadTurnToken(s) ==
    /\ Len(Split(s)) >= 2
    /\ Strip(Split(s)[1]) \notin {<<"white">>, <<"black">>}

(***************************************************************************)
(* C22.  A request to the analyze endpoint whose record has a turn token   *)
(* other than "white" or "black" is answered with a client error (HTTP 400 *)
(* or 422), never with a server error and never with an analysis result.   *)
(***************************************************************************)
C22_BadTurnIsClientError ==
    \A p \in Procs :
        loc[p].op = "analyze" /\ loc[p].pc = "done" /\ BadTurnToken(loc[p].state_string)
            => /\ http_status(Val(loc[p].resp)) \in {400, 422}
               /\ Val(loc[p].resp).body = None

\* the analyze route has refused a record with the turn token "bogus"
C22_Witness ==
    /\ loc["c1"].op = "analyze"
    /\ loc["c1"].pc = "done"
    /\ loc["c1"].state_string = <<"bogus", ":", ":", "Wn">>
    /\ Val(loc["c1"].resp).status = "RequestValidationError"
    /\ http_status(Val(loc["c1"].resp)) = 422



\* get_board_analysis of thread p was entered and has ended, by returning or
\* by raising
BoardAnalysisEnded(p) ==
    /\ loc[p].op = "analyze"
    /\ loc[p].legal_moves # <<>>
    /\ loc[p].pc \in {"best_move", "await_best", "done"}

(***************************************************************************)
(* C23.  The position given to get_board_analysis is always restored: on   *)
(* every way the call can end, an error raised while a move is applied     *)
(* included (engine not started, failure while reading a score), no        *)
(* applied move is left on the position.  The code pushes the move and     *)
(* pops it after the record is built, with no try/finally between: what    *)
(* is raised in between leaves the move on the position.                   *)
(***************************************************************************)
C23_PositionAlwaysRestored ==
    \A p \in Procs : BoardAnalysisEnded(p) =>
        /\ loc[p].board.stack = <<>>
        /\ loc[p].board = OwnBoard(p)



\* the k-th legal move of the position thread p was given
OwnMove(p, k) == legal_moves_of(OwnBoard(p))[k]

\* the position thread p was given with its k-th legal move applied, and no other
OwnBoardAfter(p, k) == [root |-> OwnBoard(p).root, stack |-> <<OwnMove(p, k)>>]

\* the first move of the principal variation of a call, null without one
FirstOfPv(entry) ==
    IF EnginePv(entry) # <<>> THEN Some(MoveStr(EnginePv(entry)[1])) ELSE None

\* get_board_analysis of thread p enumerates in order: the k-th engine call is
\* on the original position plus the k-th legal move, the move is off the
\* position between two calls, and the calls made are an initial run 1..m
SequentialEnumeration(p) ==
    LET l == loc[p]
        n == Len(legal_moves_of(OwnBoard(p)))
    IN  /\ \A k \in 1..Len(l.log) :
               IF k <= n THEN l.log[k].board = OwnBoardAfter(p, k)
                         ELSE l.log[k].board = OwnBoard(p)
        /\ Len(l.log) <= n + 1
        /\ l.pc = "await_move" =>
               /\ l.calling
               /\ Len(l.log) < n
               /\ l.call.board = OwnBoardAfter(p, Len(l.log) + 1)
               /\ l.board = l.call.board
        /\ l.pc = "push" =>
               /\ l.board = OwnBoard(p)
               /\ Len(l.log) < n
               /\ l.i = Len(l.log) + 1
               /\ Len(l.moves) = Len(l.log)
               /\ \A k \in 1..Len(l.moves) : l.moves[k].move = MoveStr(OwnMove(p, k))
        /\ AfterBoardAnalysis(p) => PerMoveCalls(p) = 1..n

AdvantageOf(entry) ==
    IF HasCp(entry) THEN Some(Pawns(Val(entry.outcome.score).v)) ELSE None

MateInOf(entry) ==
    IF HasMate(entry) THEN Some(Val(entry.outcome.score).v) ELSE None

\* the summary fields of a response are those of the call `entry`
SummaryTakenFrom(body, entry) ==
    /\ body.best_move = FirstOfPv(entry)
    /\ Len(body.principal_variation) = Min(Len(EnginePv(entry)), 5)
    /\ \A i \in 1..Len(body.principal_variation) :
           body.principal_variation[i] = MoveStr(EnginePv(entry)[i])
    /\ body.advantage = AdvantageOf(entry)
    /\ body.is_mate = HasMate(entry)
    /\ body.mate_in = MateInOf(entry)

(***************************************************************************)
(* C25.  In analyze_position of the service the best-move summary comes    *)
(* from one direct engine call on the position itself, with no move        *)
(* applied, made in addition to the per-move calls and after all of them;  *)
(* best_move, advantage, the mate fields and principal_variation of the    *)
(* response are taken from that call and not from the top-ranked record.   *)
(***************************************************************************)
C25_SummaryFromDirectCall ==
    \A p \in Procs : loc[p].op = "analyze" =>
        LET l == loc[p]
            n == Len(legal_moves_of(OwnBoard(p)))
        IN  /\ l.pc = "await_best" =>
                  /\ l.calling
                  /\ l.call.board = OwnBoard(p)
                  /\ Len(l.log) = n
                  /\ PerMoveCalls(p) = 1..n
            /\ Answered(p) =>
                  /\ Len(l.log) = n + 1
                  /\ PerMoveCalls(p) = 1..n
                  /\ SummaryCalls(p) = {n + 1}
                  /\ l.log[n + 1].board = OwnBoard(p)
                  /\ SummaryTakenFrom(Summary(p), l.log[n + 1])

\* the summary is that of the direct call while the top-ranked record,
\* from a per-move call, says otherwise
C25_Witness ==
    /\ Answered("c1")
    /\ loc["c1"].op = "analyze"
    /\ Len(loc["c1"].log) = MaxMoves + 1
    /\ HasCp(loc["c1"].log[MaxMoves + 1])
    /\ Summary("c1").advantage = Some(Pawns(-50))
    /\ Summary("c1").moves[1].white_advantage = Some(Pawns(50))
    /\ Summary("c1").best_move = Some(MoveStr(PvLine[1]))
    /\ Summary("c1").best_move # Some(Summary("c1").moves[1].move)



\* the place in the enumeration of the move whose record is at position j of
\* thread p's list
EnumerationIndex(p, j) ==
    CHOOSE k \in 1..Len(loc[p].legal_moves) :
        MoveStr(loc[p].legal_moves[k]) = loc[p].moves[j].move

\* two records rank equal: both without an advantage, or with the same one
EqualAdvantage(a, b) ==
    \/ a.white_advantage = None /\ b.white_advantage = None
    \/ /\ a.white_advantage # None
       /\ b.white_advantage # None
       /\ FracEq(Val(a.white_advantage), Val(b.white_advantage))

(***************************************************************************)
(* C26.  Ranking is stable: two move evaluations with equal effective      *)
(* advantage, two records whose advantage is null included, appear in the  *)
(* ranked list in the same relative order as the rules library enumerated  *)
(* them.                                                                   *)
(***************************************************************************)
C26_StableRanking ==
    \A p \in Procs : AfterBoardAnalysis(p) =>
        \A i, j \in 1..Len(loc[p].moves) :
            i < j /\ EqualAdvantage(loc[p].moves[i], loc[p].moves[j])
                => EnumerationIndex(p, i) < EnumerationIndex(p, j)

\* a returned list whose first two records tie: the same advantage from two
\* calls, in enumeration order
C26_Witness ==
    /\ Answered("c1")
    /\ loc["c1"].op = "analyze"
    /\ Len(loc["c1"].log) = MaxMoves + 1
    /\ HasCp(loc["c1"].log[1])
    /\ loc["c1"].log[1].outcome.score = loc["c1"].log[2].outcome.score
    /\ Summary("c1").moves[1].white_advantage = Summary("c1").moves[2].white_advantage
    /\ Summary("c1").moves[1].move = MoveStr(1)
    /\ Summary("c1").moves[2].move = MoveStr(2)



\* thread p holds a position, and it is the one of its own record: as built,
\* or with the one move its get_board_analysis is evaluating
HoldsOwnPosition(p) ==
    loc[p].board # NoBoard =>
        /\ loc[p].op \in {"analyze", "best"}
        /\ loc[p].board.root = OwnBoard(p).root
        /\ \/ loc[p].board.stack = <<>>
           \/ /\ loc[p].op = "analyze"
              /\ loc[p].pc \in {"await_move", "done"}
              /\ loc[p].board.stack = <<loc[p].legal_moves[loc[p].i]>>

\* the position of thread p changes only in a step of thread p
OnlyOwnStepsMovePosition(p) ==
    loc'[p].board # loc[p].board => loc'[p].pc # loc[p].pc

(***************************************************************************)
(* C27.  Each analyze_position / get_best_move invocation builds its own   *)
(* position from the FEN of its record and uses that one; no position is   *)
(* shared between two invocations or kept in the service or the analyzer,  *)
(* so the push / evaluate / pop sequences of concurrent requests never act *)
(* on the same position: a thread's position is that of its record with at *)
(* most its own current move applied, and no step of another thread        *)
(* changes it.                                                             *)
(***************************************************************************)
C27_OwnPositionPerInvocation ==
    /\ [](\A p \in Procs : HoldsOwnPosition(p))
    /\ [][\A p \in Procs : OnlyOwnStepsMovePosition(p)]_vars

\* two analyze_position calls of the same record, each with a different move
\* applied to its position, wait for the same engine
C27_Witness ==
    /\ loc["c1"].pc = "await_move"
    /\ loc["c2"].pc = "await_move"
    /\ loc["c1"].state_string = loc["c2"].state_string
    /\ loc["c1"].analyzer = loc["c2"].analyzer
    /\ loc["c1"].board.stack = <<1>>
    /\ loc["c2"].board.stack = <<2>>



\* the engine.analyse calls thread p has finished on a given position
CallsOn(p, board) == {k \in 1..Len(loc[p].log) : loc[p].log[k].board = board}

(***************************************************************************)
(* C28.  No failed search is retried: for a position with n legal moves an *)
(* analyze_position call never analyses a position twice and never issues  *)
(* more than n + 1 engine.analyse calls; once get_board_analysis has       *)
(* returned each legal move's resulting position has been analysed exactly *)
(* once, and a call that returns has issued exactly n + 1 calls, one per   *)
(* legal move plus the summary call, whether or not individual calls       *)
(* failed.                                                                 *)
(***************************************************************************)
C28_NoRetry ==
    \A p \in Procs : loc[p].op = "analyze" /\ loc[p].board # NoBoard =>
        LET l == loc[p]
            n == Len(legal_moves_of(OwnBoard(p)))
        IN  /\ CallsOf(p) <= n + 1
            /\ \A k \in 1..Len(l.log) : CallsOn(p, l.log[k].board) = {k}
            /\ l.calling => CallsOn(p, l.call.board) = {}
            /\ AfterBoardAnalysis(p) =>
                   \A m \in 1..n : Cardinality(CallsOn(p, OwnBoardAfter(p, m))) = 1
            /\ Answered(p) =>
                   /\ Len(l.log) = n + 1
                   /\ Cardinality(CallsOn(p, OwnBoard(p))) = 1

\* every per-move search and the summary search raised; the call returned
\* after exactly one search per position
C28_Witness ==
    /\ Answered("c1")
    /\ loc["c1"].op = "analyze"
    /\ Len(loc["c1"].log) = MaxMoves + 1
    /\ \A k \in 1..(MaxMoves + 1) : loc["c1"].log[k].outcome.raised



\* a record the service must reject: too few segments, a turn token that is
\* neither "white" nor "black", or a FEN the rules library does not accept
MustBeRejected(s) ==
    \/ Len(Split(s)) < 2
    \/ BadTurnToken(s)
    \/ Strip(Split(s)[2]) \notin {<<f>> : f \in FenAtoms}

\* thread p holds the refusal of its record, and nothing of a call beyond it
RejectedUntouched(p) ==
    /\ loc[p].pc = "done"
    /\ Val(loc[p].resp).status \in {"ValueError", "RequestValidationError"}
    /\ loc[p].log = <<>>
    /\ ~loc[p].calling
    /\ loc[p].analyzer = 0
    /\ loc[p].board = NoBoard

(***************************************************************************)
(* C29.  When analyze_position or get_best_move rejects its record (too    *)
(* few segments, bad turn token, unparseable FEN) no engine call is made   *)
(* and the service state is unchanged: the analyzer and the engine path    *)
(* are as before the call, and an engine that was not started is not       *)
(* started by the rejected request.                                        *)
(***************************************************************************)
C29_RejectionLeavesServiceUntouched ==
    /\ [](\A p \in Procs :
             loc[p].op \in {"analyze", "best"} /\ MustBeRejected(loc[p].state_string)
                 => RejectedUntouched(p))
    /\ [][\A p \in Procs :
             /\ loc[p].pc = "idle"
             /\ loc'[p].op \in {"analyze", "best"}
             /\ MustBeRejected(loc'[p].state_string)
             => /\ Session' = Session
                /\ LaunchesOf(analyzers') = LaunchesOf(analyzers)
                /\ session_started' = session_started
                /\ exited' = exited
                /\ is_engine_ready' = is_engine_ready]_vars

\* a record with an unparseable FEN was refused on a service that was never
\* started, and the service is still not started
C29_Witness ==
    /\ loc["c1"].op = "analyze"
    /\ loc["c1"].state_string = RecordOf("white", "junk")
    /\ loc["c1"].pc = "done"
    /\ Val(loc["c1"].resp).status = "ValueError"
    /\ svc_analyzer = 0
    /\ svc_engine_path = None
    /\ analyzers = <<>>
    /\ ~is_engine_ready



\* the FEN segment of a record, and the side to move it encodes
FenOfRecord(s) == Strip(Split(s)[2])

SideOfFen(fen) == IF fen[1] \in {"W0", "Wn"} THEN "white" ELSE "black"

\* the side to move in the position an engine call was made on
SideAnalysed(entry) ==
    IF turn_of(entry.board) = WHITE THEN "white" ELSE "black"

OtherSide(side) == IF side = "white" THEN "black" ELSE "white"

(***************************************************************************)
(* C30.  The turn reported in an analysis response is the side to move     *)
(* encoded in the FEN of the record, and the fen reported is that of the   *)
(* parsed position; the turn token of the record is only validated and     *)
(* never changes which side is analysed, also when it names the other      *)
(* side: every engine call is on the position of the FEN, with the FEN's   *)
(* side to move on the position itself and the other side after a move.    *)
(***************************************************************************)
C30_TurnFromFen ==
    \A p \in Procs : loc[p].op = "analyze" /\ loc[p].board # NoBoard =>
        LET fen  == FenOfRecord(loc[p].state_string)
            side == SideOfFen(fen)
        IN  /\ loc[p].analysis # NoAnalysis =>
                   /\ loc[p].analysis.turn = side
                   /\ loc[p].analysis.fen = fen
            /\ Answered(p) =>
                   /\ Summary(p).turn = side
                   /\ Summary(p).fen = fen
            /\ \A k \in 1..Len(loc[p].log) :
                   /\ loc[p].log[k].board.root = fen[1]
                   /\ SideAnalysed(loc[p].log[k]) =
                          IF loc[p].log[k].board.stack = <<>> THEN side
                          ELSE OtherSide(side)

\* a record whose turn token says black and whose FEN has white to move was
\* analysed as white to move
C30_Witness ==
    /\ Answered("c1")
    /\ loc["c1"].op = "analyze"
    /\ loc["c1"].state_string = <<"black", ":", ":", "Wn">>
    /\ Summary("c1").turn = "white"
    /\ Summary("c1").fen = <<"Wn">>
    /\ Len(loc["c1"].log) = MaxMoves + 1
    /\ SideAnalysed(loc["c1"].log[MaxMoves + 1]) = "white"

====
